---- MODULE Spec2Model ----
(***************************************************************************)
(* Payroll and leave-ledger engine of PayRollPro (src/app.py,              *)
(* src/models.py), modelled as a state machine over the three tables       *)
(* employees, leave_transactions and payroll.                              *)
(*                                                                         *)
(* Units.  Money is held in paise (1/100 rupee), so round(x, 2) is a       *)
(* rounding to an integer.  Day counts are held in half-days, so the       *)
(* monthly allocation of 1.5 days is 3 and the 30-day month is 60; int()   *)
(* on a day count truncates to a whole number of days, i.e. to an even     *)
(* number of half-days.                                                    *)
(***************************************************************************)
EXTENDS Integers, Sequences, FiniteSets, TLC

VARIABLES employees, leave_transactions, payroll, clock, hikes, uploads, response,
          database, requests, components, employee_rows

vars == <<employees, leave_transactions, payroll, clock, hikes, uploads, response,
          database, requests, components, employee_rows>>

\* the three tables
store == <<employees, leave_transactions, payroll>>

\* what the handlers of one request at a time never touch
idle == <<database, requests, components, employee_rows>>

(***************************************************************************)
(* Bounds of the model.                                                    *)
(***************************************************************************)
MaxLedger == 3      \* individual payroll runs explored
NumMonths == 3      \* pay periods offered: September .. (September + NumMonths - 1)
MaxRows   == 1      \* rows of an uploaded payroll spreadsheet
MaxHikes  == 1      \* permanent hikes explored
MaxUploads == 1     \* spreadsheets explored
MaxRequests == 2    \* requests in flight at once
MaxFileRows == 2    \* rows of an uploaded spreadsheet of new employees
MaxCtc == 60        \* calculate_salary_components is explored on 1..MaxCtc paise

(***************************************************************************)
(* Program constants.                                                      *)
(***************************************************************************)
monthly_allocation == 3          \* 1.5 days, in half-days
total_days         == 60         \* 30 days, in half-days
pf_cap             == 180000     \* 1800.00 rupees, in paise
leave_rate         == 5000       \* 100 rupees per day = 50.00 per half-day, in paise
default_leave_balance == 3       \* 1.5 days, in half-days

NoEmployee == [absent |-> TRUE]

\* a request slot with no request in flight
NoRequest == [at |-> "none"]
RequestIds == 1..MaxRequests

\* no call of calculate_salary_components under way
NoCall == [at |-> "none"]

EmpIds == {"E1"}
UnknownEmpIds == {"E9"}

\* ids that arrive in a spreadsheet of new employees
BulkEmpIds == {"E2"}

\* ids that can be in the employees table
StoredEmpIds == EmpIds \cup BulkEmpIds

\* the <option> values of the month selector, in calendar order
MonthNames == <<"January", "February", "March", "April", "May", "June",
                "July", "August", "September", "October", "November", "December">>

\* the same names in the ascending order of a String column
MonthCollation == <<"April", "August", "December", "February", "January", "July",
                    "June", "March", "May", "November", "October", "September">>

Months == {MonthNames[i] : i \in 9..(8 + NumMonths)}
Years  == {2024}

\* what the year field of a form can carry, as strings of characters
YearTexts == {<<"2", "0", "2", "4">>}
UnparsableYearTexts == {<<"2", "0", "2", "x">>}

\* the month and year employee_dashboard takes from datetime.now()
CurrentMonths == {"November"}

CalendarIndex(m) == CHOOSE i \in 1..12 : MonthNames[i] = m
CollationIndex(m) == CHOOSE i \in 1..12 : MonthCollation[i] = m

Min(a, b) == IF a < b THEN a ELSE b
Max(a, b) == IF a > b THEN a ELSE b

(***************************************************************************)
(* round(n/d, 2 decimals) on a paise amount n/d: nearest integer, ties to  *)
(* even, symmetric for negative amounts.                                   *)
(***************************************************************************)
RoundPos(n, d) ==
    LET q == n \div d
        r == n % d
    IN  IF 2 * r < d THEN q
        ELSE IF 2 * r > d THEN q + 1
        ELSE IF q % 2 = 0 THEN q ELSE q + 1

round(n, d) == IF n >= 0 THEN RoundPos(n, d) ELSE 0 - RoundPos(0 - n, d)

\* int(x) on a day count held in half-days: truncation toward zero to whole days
int(h) == IF h >= 0 THEN (h \div 2) * 2 ELSE 0 - (((0 - h) \div 2) * 2)

(***************************************************************************)
(* calculate_salary_components(ctc_monthly, pf_opted, additional_deduction)*)
(***************************************************************************)
\* pf_amount without the cap of 1800
pf_amount_uncapped(basic, pf_opted) ==
    IF pf_opted THEN round(basic * 12, 100) ELSE 0

\* PF on a basic salary: min(basic * 0.12, 1800) rounded, or 0 when not opted
pf_amount(basic, pf_opted) ==
    IF pf_opted
    THEN IF basic * 12 < pf_cap * 100 THEN round(basic * 12, 100) ELSE pf_cap
    ELSE 0

\* gross_salary_of with the monetized leave balance left out of the sum
gross_salary_without_leave(c) ==
    round(c.basic + c.hra + c.special_allowance +
          c.conveyance_allowance + c.medical_allowance +
          c.overtime_amount + c.expenses + c.bonus, 1)

\* sum of the nine earning lines, rounded to 2 decimals
gross_salary_of(c) ==
    round(c.basic + c.hra + c.special_allowance +
          c.conveyance_allowance + c.medical_allowance +
          c.overtime_amount + c.expenses + c.bonus +
          c.leave_balance_amount, 1)

\* total_deductions_of that leaves the additional deduction out
total_deductions_without_additional(c) ==
    round(c.pf_employee + c.vpf + c.pt + c.charity + c.misc_deduction, 1)

\* sum of the six deduction lines, rounded to 2 decimals
total_deductions_of(c) ==
    round(c.pf_employee + c.vpf + c.pt + c.charity + c.misc_deduction +
          c.additional_deduction, 1)

\* net_salary_of that forgets the deductions
net_salary_undeducted(gross, deductions) == round(gross, 1)

net_salary_of(gross, deductions) == round(gross - deductions, 1)

\* the dictionary returned once the three totals are known
salary_components_of(c, gross_salary, total_deductions) ==
    c @@ [gross_salary     |-> gross_salary,
          total_deductions |-> total_deductions,
          net_salary       |-> net_salary_of(gross_salary, total_deductions)]

\* the earning and deduction lines, then the totals over them
salary_lines(ctc_monthly, basic, hra, conveyance, medical, pf_opted, additional_deduction) ==
    [basic                |-> basic,
     hra                  |-> hra,
     conveyance_allowance |-> conveyance,
     medical_allowance    |-> medical,
     overtime_amount      |-> 0,
     expenses             |-> 0,
     bonus                |-> 0,
     leave_balance_amount |-> 0,
     special_allowance    |-> round(ctc_monthly - (basic + hra + conveyance + medical), 1),
     pf_employee          |-> pf_amount(basic, pf_opted),
     pf_employer          |-> pf_amount(basic, pf_opted),
     vpf                  |-> 0,
     pt                   |-> 0,
     charity              |-> 0,
     misc_deduction       |-> 0,
     additional_deduction |-> additional_deduction]

salary_totals(c) ==
    salary_components_of(c, gross_salary_of(c), total_deductions_of(c))

salary_from_basic(ctc_monthly, basic, pf_opted, additional_deduction) ==
    salary_totals(salary_lines(ctc_monthly, basic, round(basic * 20, 100),
                               round(ctc_monthly * 5, 100),
                               round(ctc_monthly * 5, 100),
                               pf_opted, additional_deduction))

calculate_salary_components(ctc_monthly, pf_opted, additional_deduction) ==
    salary_from_basic(ctc_monthly, round(ctc_monthly * 50, 100), pf_opted,
                      additional_deduction)

(***************************************************************************)
(* calculate_leave_balance(employee, leaves_taken, month, year)            *)
(***************************************************************************)
\* rows of the ledger of one employee, as indices in insertion order
TransactionsOf(emp_id) ==
    {i \in 1..Len(leave_transactions) : leave_transactions[i].emp_id = emp_id}

\* row a sorts before row b under ORDER BY year DESC, month DESC
\* (month is a String column: it is compared as text)
SortsBefore(a, b) ==
    \/ a.year > b.year
    \/ a.year = b.year /\ CollationIndex(a.month) > CollationIndex(b.month)

\* the rows the query may return as .first(): those no other row sorts before
\* (rows with the same year and month are returned in an unspecified order)
PrevTransactions(emp_id) ==
    {i \in TransactionsOf(emp_id) :
        \A j \in TransactionsOf(emp_id) :
            ~SortsBefore(leave_transactions[j], leave_transactions[i])}

\* 0 stands for "no previous transaction"
PrevChoices(emp_id) ==
    IF PrevTransactions(emp_id) = {} THEN {0} ELSE PrevTransactions(emp_id)

current_balance_of(employee, prev) ==
    IF prev # 0
    THEN leave_transactions[prev].balance_after + monthly_allocation
    ELSE employee.leave_balance + monthly_allocation

\* leave_balance_used_of without the cap at the available balance
leave_balance_used_uncapped(leaves_taken, current_balance) == leaves_taken

leave_balance_used_of(leaves_taken, current_balance) ==
    Min(leaves_taken, current_balance)

\* loss_of_pay_days_of without the floor at 0
loss_of_pay_days_unfloored(leaves_taken, current_balance) ==
    leaves_taken - current_balance

loss_of_pay_days_of(leaves_taken, current_balance) ==
    Max(0, leaves_taken - current_balance)

\* the dictionary returned by calculate_leave_balance
leave_info_of(leaves_taken, current_balance) ==
    LET used == leave_balance_used_of(leaves_taken, current_balance)
        lop  == loss_of_pay_days_of(leaves_taken, current_balance)
    IN  [leave_balance_used |-> used,
         loss_of_pay_days   |-> lop,
         remaining_balance  |-> current_balance - used,
         paid_days          |-> total_days - lop,
         present_days       |-> total_days - leaves_taken]

\* leave_transaction_of with the balance after the month's allocation
\* recorded as balance_before
leave_transaction_without_allocation(emp_id, month, year, leaves_taken, current_balance) ==
    LET info == leave_info_of(leaves_taken, current_balance)
    IN  [emp_id           |-> emp_id,
         month            |-> month,
         year             |-> year,
         leaves_allocated |-> monthly_allocation,
         leaves_used      |-> info.leave_balance_used,
         balance_before   |-> current_balance,
         balance_after    |-> info.remaining_balance]

\* set_leave_balance that forgets the assignment
set_leave_balance_skipped(table, emp_id, remaining_balance) == table

\* employee.leave_balance = remaining_balance
set_leave_balance(table, emp_id, remaining_balance) ==
    [table EXCEPT ![emp_id].leave_balance = remaining_balance]

\* the LeaveTransaction row added to the session
leave_transaction_of(emp_id, month, year, leaves_taken, current_balance) ==
    LET info == leave_info_of(leaves_taken, current_balance)
    IN  [emp_id           |-> emp_id,
         month            |-> month,
         year             |-> year,
         leaves_allocated |-> monthly_allocation,
         leaves_used      |-> info.leave_balance_used,
         balance_before   |-> current_balance - monthly_allocation,
         balance_after    |-> info.remaining_balance]

(***************************************************************************)
(* Request inputs.                                                         *)
(***************************************************************************)
Users == {"admin", "hr", "accounts"}

\* submissions of the add-employee form (monthly CTC in paise)
EmployeeForms ==
    { [ctc_monthly |-> 5000000, pf_opted |-> TRUE],
      [ctc_monthly |-> 2000000, pf_opted |-> FALSE] }

\* amount of a permanent hike, in paise
HikeInputs == {500000}

\* submissions of the individual payroll form (days in half-days, money in paise)
Forms ==
    { [leaves_taken |-> 0, pf_opted |-> TRUE, hike_amount |-> 0,
       deduction_amount |-> 0, deduction_reason |-> "",
       overtime_amount |-> 0, expenses |-> 0, bonus |-> 0, user |-> "admin"],
      [leaves_taken |-> 7, pf_opted |-> TRUE, hike_amount |-> 500000,
       deduction_amount |-> 50000, deduction_reason |-> "advance",
       overtime_amount |-> 100000, expenses |-> 20000, bonus |-> 30000,
       user |-> "hr"] }

\* rows of an uploaded payroll spreadsheet (days_worked in whole days)
SheetRows ==
    { [emp_id |-> "E1", days_worked |-> 30, pf_opted |-> TRUE],
      [emp_id |-> "E1", days_worked |-> 28, pf_opted |-> FALSE],
      [emp_id |-> "E9", days_worked |-> 30, pf_opted |-> FALSE] }

\* the spreadsheets of 1..MaxRows rows
Sheets == UNION {[1..n -> SheetRows] : n \in 1..MaxRows}

\* rows of an uploaded spreadsheet of new employees, each with a name and a
\* well-formed e-mail address that no other employee has
EmployeeRows ==
    { [emp_id |-> "E2", ctc_monthly |-> 3000000, pf_opted |-> TRUE],
      [emp_id |-> "E2", ctc_monthly |-> 0, pf_opted |-> TRUE],
      [emp_id |-> "E1", ctc_monthly |-> 2000000, pf_opted |-> FALSE] }

EmployeeSheets == UNION {[1..n -> EmployeeRows] : n \in 1..MaxRows}

(***************************************************************************)
(* Initial state: the tables as db.create_all() leaves them.               *)
(***************************************************************************)
\* SQLALCHEMY_DATABASE_URI: DATABASE_URL when it is set, or the SQLite file
Databases == {"sqlite", "postgresql"}

Init ==
    /\ employees = [e \in StoredEmpIds |-> NoEmployee]
    /\ leave_transactions = <<>>
    /\ payroll = <<>>
    /\ clock = 0
    /\ hikes = 0
    /\ uploads = 0
    /\ response = [flash |-> ""]
    /\ database = "sqlite"
    /\ requests = [r \in RequestIds |-> NoRequest]
    /\ components = NoCall
    /\ employee_rows = <<>>

Exists(emp_id) == emp_id \in StoredEmpIds /\ employees[emp_id] # NoEmployee

(***************************************************************************)
(* add_employee                                                            *)
(***************************************************************************)
AddEmployee(emp_id, form) ==
    /\ emp_id \in EmpIds
    /\ IF Exists(emp_id)
       THEN /\ response' = [flash |-> "already exists"]
            /\ UNCHANGED employees
       ELSE /\ employees' = [employees EXCEPT ![emp_id] =
                                [ctc_monthly   |-> form.ctc_monthly,
                                 ctc_annual    |-> form.ctc_monthly * 12,
                                 pf_opted      |-> form.pf_opted,
                                 leave_balance |-> default_leave_balance]]
            /\ response' = [flash |-> "added"]
    /\ UNCHANGED <<leave_transactions, payroll, clock, hikes, uploads>>

(***************************************************************************)
(* bulk_add_employees                                                      *)
(***************************************************************************)
\* the Employee row both add_employee and bulk_add_employees build
new_employee(ctc_monthly, pf_opted) ==
    [ctc_monthly   |-> ctc_monthly,
     ctc_annual    |-> ctc_monthly * 12,
     pf_opted      |-> pf_opted,
     leave_balance |-> default_leave_balance]

\* one iteration of the loop over the rows; st holds the session's employees
\* and both counters
bulk_add_row(st, r) ==
    IF st.employees[r.emp_id] # NoEmployee
    THEN [st EXCEPT !.error_count = st.error_count + 1]
    ELSE IF r.ctc_monthly <= 0
    THEN [st EXCEPT !.error_count = st.error_count + 1]
    ELSE [st EXCEPT !.employees[r.emp_id] = new_employee(r.ctc_monthly, r.pf_opted),
                    !.success_count = st.success_count + 1]

bulk_add_loop(st0, sheet) ==
    LET after[i \in 0..Len(sheet)] ==
            IF i = 0 THEN st0 ELSE bulk_add_row(after[i - 1], sheet[i])
    IN  after[Len(sheet)]

\* the three outcomes reported after the loop
bulk_add_flash(st) ==
    IF st.success_count > 0 /\ st.error_count = 0 THEN "Successfully added all"
    ELSE IF st.success_count > 0 THEN "Successfully added some"
    ELSE "No employees were added"

\* db.session.commit() when at least one row was added, and the flash message
bulk_add_commit(st) ==
    /\ employees' = IF st.success_count > 0 THEN st.employees ELSE employees
    /\ response' = [flash |-> bulk_add_flash(st),
                    success_count |-> st.success_count,
                    error_count |-> st.error_count]

BulkAddEmployees(sheet) ==
    /\ uploads < MaxUploads
    /\ uploads' = uploads + 1
    /\ bulk_add_commit(bulk_add_loop([employees |-> employees, success_count |-> 0,
                                      error_count |-> 0], sheet))
    /\ UNCHANGED <<leave_transactions, payroll, clock, hikes>>

(***************************************************************************)
(* process_individual_payroll                                              *)
(***************************************************************************)
\* scale_for_loss_of_pay that cuts the scaled amount off at whole paise
scale_for_loss_of_pay_truncated(amount, loss_of_pay_days) ==
    (amount * (total_days - loss_of_pay_days)) \div total_days

\* the five fixed earning lines scaled by (1 - loss_of_pay_days / 30)
scale_for_loss_of_pay(amount, loss_of_pay_days) ==
    round(amount * (total_days - loss_of_pay_days), total_days)

\* leave_balance_amount_of on the balance before the leave was taken
leave_balance_amount_before_leave(info) ==
    (info.remaining_balance + info.leave_balance_used) * leave_rate

\* the remaining leave balance monetized at 100 rupees a day
leave_balance_amount_of(info) == info.remaining_balance * leave_rate

\* the breakdown after loss-of-pay scaling, variable earnings and new totals
adjusted_components(sc, info, form) ==
    LET lop == info.loss_of_pay_days
        fx(a) == IF lop > 0 THEN scale_for_loss_of_pay(a, lop) ELSE a
        c1 == [sc EXCEPT !.basic                = fx(sc.basic),
                         !.hra                  = fx(sc.hra),
                         !.special_allowance    = fx(sc.special_allowance),
                         !.conveyance_allowance = fx(sc.conveyance_allowance),
                         !.medical_allowance    = fx(sc.medical_allowance),
                         !.overtime_amount      = form.overtime_amount,
                         !.expenses             = form.expenses,
                         !.bonus                = form.bonus,
                         !.leave_balance_amount = leave_balance_amount_of(info)]
        gross == gross_salary_of(c1)
    IN  [c1 EXCEPT !.gross_salary = gross,
                   !.net_salary   = net_salary_of(gross, c1.total_deductions)]

\* the Payroll row written by process_individual_payroll
individual_payroll_row(emp_id, month, year, form, info, c, now) ==
    [emp_id               |-> emp_id,
     month                |-> month,
     year                 |-> year,
     total_days           |-> total_days,
     present_days         |-> int(info.present_days),
     leaves_taken         |-> form.leaves_taken,
     paid_days            |-> int(info.paid_days),
     loss_of_pay_days     |-> info.loss_of_pay_days,
     leave_balance_used   |-> info.leave_balance_used,
     basic_salary         |-> c.basic,
     hra                  |-> c.hra,
     special_allowance    |-> c.special_allowance,
     conveyance_allowance |-> c.conveyance_allowance,
     medical_allowance    |-> c.medical_allowance,
     overtime_amount      |-> c.overtime_amount,
     expenses             |-> c.expenses,
     bonus                |-> c.bonus,
     leave_balance_amount |-> c.leave_balance_amount,
     pf_employee          |-> c.pf_employee,
     pf_employer          |-> c.pf_employer,
     vpf                  |-> c.vpf,
     pt                   |-> c.pt,
     charity              |-> c.charity,
     misc_deduction       |-> c.misc_deduction,
     additional_deduction |-> c.additional_deduction,
     deduction_reason     |-> form.deduction_reason,
     total_deductions     |-> c.total_deductions,
     gross_salary         |-> c.gross_salary,
     net_salary           |-> c.net_salary,
     hike_amount          |-> form.hike_amount,
     processed_by         |-> form.user,
     processed_at         |-> now]

\* first_existing that never finds the row
first_existing_none(rows, emp_id, month, year) == 0

\* what .first() returns: the matching row with the lowest id, 0 for None
first_existing(rows, emp_id, month, year) ==
    LET S == {i \in 1..Len(rows) : /\ rows[i].emp_id = emp_id
                                    /\ rows[i].month = month
                                    /\ rows[i].year = year}
    IN  IF S = {} THEN 0 ELSE CHOOSE i \in S : \A j \in S : i <= j

\* period_ctc that leaves the one-off hike out
period_ctc_without_hike(employee, hike_amount) == employee.ctc_monthly

\* the CTC the components of this period are computed from
period_ctc(employee, hike_amount) == employee.ctc_monthly + hike_amount

\* add_leave_transaction that overwrites the row of the same period, if any
add_leave_transaction_in_place(ledger, row) ==
    IF \E i \in 1..Len(ledger) : /\ ledger[i].emp_id = row.emp_id
                                 /\ ledger[i].month = row.month
                                 /\ ledger[i].year = row.year
    THEN [i \in 1..Len(ledger) |->
            IF /\ ledger[i].emp_id = row.emp_id
               /\ ledger[i].month = row.month
               /\ ledger[i].year = row.year
            THEN row ELSE ledger[i]]
    ELSE Append(ledger, row)

\* db.session.add(leave_transaction), once committed
add_leave_transaction(ledger, row) == Append(ledger, row)

\* upsert_payroll that loses the Payroll write
upsert_payroll_lost(rows, existing, row) == rows

\* the Payroll write, once committed: the existing row is overwritten in
\* place, or the new row is added
upsert_payroll(rows, existing, row) ==
    IF existing # 0 THEN [rows EXCEPT ![existing] = row] ELSE Append(rows, row)

ProcessIndividualPayroll(emp_id, month, year, form) ==
    IF ~Exists(emp_id)
    THEN /\ response' = [flash |-> "Employee not found!"]
         /\ UNCHANGED <<employees, leave_transactions, payroll, clock, hikes, uploads>>
    ELSE /\ Len(leave_transactions) < MaxLedger
         /\ \E prev \in PrevChoices(emp_id) :
              LET employee == employees[emp_id]
                  existing == first_existing(payroll, emp_id, month, year)
                  ctc_monthly == period_ctc(employee, form.hike_amount)
                  sc == calculate_salary_components(ctc_monthly, form.pf_opted,
                                                    form.deduction_amount)
                  cur == current_balance_of(employee, prev)
                  info == leave_info_of(form.leaves_taken, cur)
                  c == adjusted_components(sc, info, form)
                  now == clock + 1
                  row == individual_payroll_row(emp_id, month, year, form, info, c, now)
              IN  /\ leave_transactions' =
                        add_leave_transaction(leave_transactions,
                               leave_transaction_of(emp_id, month, year,
                                                    form.leaves_taken, cur))
                  /\ employees' = set_leave_balance(employees, emp_id,
                                                    info.remaining_balance)
                  /\ payroll' = upsert_payroll(payroll, existing, row)
                  /\ clock' = now
                  /\ response' = [flash |-> "Payroll processed successfully",
                                  emp_id |-> emp_id, month |-> month, year |-> year,
                                  form |-> form, prev |-> prev, existing |-> existing,
                                  ctc_monthly |-> ctc_monthly,
                                  salary_components |-> sc,
                                  leave_info |-> info]
                  /\ UNCHANGED <<hikes, uploads>>

\* the decimal digits
Digits == <<"0", "1", "2", "3", "4", "5", "6", "7", "8", "9">>

\* int(text) succeeds: the text is a non-empty string of decimal digits
is_int(text) ==
    /\ Len(text) > 0
    /\ \A i \in 1..Len(text) : \E d \in 1..Len(Digits) : Digits[d] = text[i]

\* int(text) for such a text
int_of_text(text) ==
    LET digit(i) == (CHOOSE d \in 1..Len(Digits) : Digits[d] = text[i]) - 1
        value[i \in 0..Len(text)] ==
            IF i = 0 THEN 0 ELSE value[i - 1] * 10 + digit(i)
    IN  value[Len(text)]

\* the handler: the form is parsed first; a ValueError is caught by the
\* handler's except clause, which rolls the session back
process_individual_payroll(emp_id, month, year_text, form) ==
    IF ~is_int(year_text)
    THEN /\ response' = [flash |-> "Error processing payroll"]
         /\ UNCHANGED <<employees, leave_transactions, payroll, clock, hikes, uploads>>
    ELSE ProcessIndividualPayroll(emp_id, month, int_of_text(year_text), form)

(***************************************************************************)
(* employee_dashboard                                                      *)
(***************************************************************************)
\* discard_session that commits the pending changes
discard_session_committing(committed, pending) == pending

\* the table after a request that ends without db.session.commit(): the
\* session is removed with the request and its pending changes are lost
discard_session(committed, pending) == committed

\* calculate_leave_balance(employee, 0, current_month, current_year) adds a
\* LeaveTransaction to the session and assigns employee.leave_balance; the
\* handler renders the page and returns
dashboard_page(emp_id, month, year, current_balance) ==
    /\ leave_transactions' =
          discard_session(leave_transactions,
              add_leave_transaction(leave_transactions,
                  leave_transaction_of(emp_id, month, year, 0, current_balance)))
    /\ employees' =
          discard_session(employees,
              set_leave_balance(employees, emp_id,
                  leave_info_of(0, current_balance).remaining_balance))

\* the handler, up to the page it returns: an unknown emp_id is redirected
\* to the dashboard
employee_dashboard(emp_id, month, year) ==
    IF ~Exists(emp_id)
    THEN UNCHANGED <<employees, leave_transactions>>
    ELSE \E prev \in PrevChoices(emp_id) :
            dashboard_page(emp_id, month, year,
                           current_balance_of(employees[emp_id], prev))

EmployeeDashboard(emp_id, month, year) ==
    /\ employee_dashboard(emp_id, month, year)
    /\ UNCHANGED <<payroll, clock, hikes, uploads, response>>

\* the same request, with the page it answers kept as the response
ViewEmployeeDashboard(emp_id, month, year) ==
    /\ employee_dashboard(emp_id, month, year)
    /\ response' = [flash |-> "", page |-> "employee_dashboard", emp_id |-> emp_id]
    /\ UNCHANGED <<payroll, clock, hikes, uploads>>

(***************************************************************************)
(* dashboard, send_payslips, download_payslip, download_report: queries,   *)
(* a rendered page or file, and no assignment to a mapped object           *)
(***************************************************************************)
\* the Payroll rows of a month a user may see: all of them for the admin,
\* those the user processed for the others
visible_payrolls(month, year, user) ==
    {i \in 1..Len(payroll) :
        /\ payroll[i].month = month
        /\ payroll[i].year = year
        /\ Exists(payroll[i].emp_id)
        /\ user = "admin" \/ payroll[i].processed_by = user}

Dashboard ==
    UNCHANGED <<employees, leave_transactions, payroll, clock, hikes, uploads, response>>

SendPayslips(month, year, user) ==
    /\ visible_payrolls(month, year, user) \subseteq 1..Len(payroll)
    /\ UNCHANGED <<employees, leave_transactions, payroll, clock, hikes, uploads, response>>

DownloadPayslip(emp_id, month, year) ==
    /\ first_existing(payroll, emp_id, month, year) \in 0..Len(payroll)
    /\ UNCHANGED <<employees, leave_transactions, payroll, clock, hikes, uploads, response>>

DownloadReport(month, year, user) ==
    /\ visible_payrolls(month, year, user) \subseteq 1..Len(payroll)
    /\ UNCHANGED <<employees, leave_transactions, payroll, clock, hikes, uploads, response>>

(***************************************************************************)
(* bulk_process_payroll                                                    *)
(***************************************************************************)
\* the breakdown of one spreadsheet row: every entry of the dictionary is
\* scaled by days_worked / 30 when days_worked is not 30
scale_for_days_worked(sc, days_worked) ==
    IF days_worked # 30
    THEN [k \in DOMAIN sc |-> round(sc[k] * days_worked, 30)]
    ELSE sc

bulk_components(ctc_monthly, pf_opted, days_worked) ==
    scale_for_days_worked(calculate_salary_components(ctc_monthly, pf_opted, 0),
                          days_worked)

\* the assignments made to an existing Payroll row before the first lookup of
\* salary_components['employer_pf']
bulk_update_head(old, sc, days_worked) ==
    [old EXCEPT !.total_days           = days_worked * 2,
                !.present_days         = days_worked * 2,
                !.leaves_taken         = 0,
                !.paid_days            = days_worked * 2,
                !.loss_of_pay_days     = IF days_worked < 30
                                         THEN (30 - days_worked) * 2 ELSE 0,
                !.leave_balance_used   = 0,
                !.basic_salary         = sc.basic,
                !.hra                  = sc.hra,
                !.conveyance_allowance = sc.conveyance_allowance,
                !.medical_allowance    = sc.medical_allowance,
                !.special_allowance    = sc.special_allowance,
                !.overtime_amount      = sc.overtime_amount,
                !.expenses             = sc.expenses,
                !.bonus                = sc.bonus,
                !.leave_balance_amount = sc.leave_balance_amount]

\* the assignments that follow it
bulk_update_tail(head, sc, user, now) ==
    [head EXCEPT !.pf_employer      = sc.employer_pf,
                 !.pf_employee      = sc.employee_pf,
                 !.gross_salary     = sc.gross_salary,
                 !.total_deductions = sc.total_deductions,
                 !.net_salary       = sc.net_salary,
                 !.processed_by     = user,
                 !.processed_at     = now]

\* the new Payroll row of the insert branch
bulk_new_row(emp_id, month, year, sc, days_worked, user, now) ==
    [emp_id               |-> emp_id,
     month                |-> month,
     year                 |-> year,
     total_days           |-> days_worked * 2,
     present_days         |-> days_worked * 2,
     leaves_taken         |-> 0,
     paid_days            |-> days_worked * 2,
     loss_of_pay_days     |-> IF days_worked < 30 THEN (30 - days_worked) * 2 ELSE 0,
     leave_balance_used   |-> 0,
     basic_salary         |-> sc.basic,
     hra                  |-> sc.hra,
     special_allowance    |-> sc.special_allowance,
     conveyance_allowance |-> sc.conveyance_allowance,
     medical_allowance    |-> sc.medical_allowance,
     overtime_amount      |-> sc.overtime_amount,
     expenses             |-> sc.expenses,
     bonus                |-> sc.bonus,
     leave_balance_amount |-> sc.leave_balance_amount,
     pf_employee          |-> sc.employee_pf,
     pf_employer          |-> sc.employer_pf,
     vpf                  |-> 0,
     pt                   |-> 0,
     charity              |-> 0,
     misc_deduction       |-> 0,
     additional_deduction |-> 0,
     deduction_reason     |-> "",
     total_deductions     |-> sc.total_deductions,
     gross_salary         |-> sc.gross_salary,
     net_salary           |-> sc.net_salary,
     hike_amount          |-> 0,
     processed_by         |-> user,
     processed_at         |-> now]

\* a lookup of this key in the dictionary raises KeyError when it is missing
HasKey(sc, k) == k \in DOMAIN sc

\* the update branch: head is the row after the assignments that precede the
\* first missing key
bulk_update(st, existing, head, sc, user) ==
    IF HasKey(sc, "employer_pf") /\ HasKey(sc, "employee_pf")
    THEN [st EXCEPT !.payroll[existing] =
                        bulk_update_tail(head, sc, user, st.clock + 1),
                    !.clock = st.clock + 1,
                    !.updated = st.updated \cup {existing},
                    !.success_count = st.success_count + 1]
    ELSE \* KeyError: the assignments already made stay in the session
         [st EXCEPT !.payroll[existing] = head,
                    !.updated = st.updated \cup {existing},
                    !.error_count = st.error_count + 1]

\* the insert branch
bulk_insert(st, r, month, year, sc, user) ==
    IF HasKey(sc, "employer_pf") /\ HasKey(sc, "employee_pf")
    THEN [st EXCEPT !.payroll = Append(st.payroll,
                          bulk_new_row(r.emp_id, month, year, sc,
                                       r.days_worked, user, st.clock + 1)),
                    !.clock = st.clock + 1,
                    !.success_count = st.success_count + 1]
    ELSE \* KeyError before db.session.add: the row is discarded
         [st EXCEPT !.error_count = st.error_count + 1]

\* the body of the try block for an employee that exists
bulk_upsert(st, r, month, year, user, sc, existing) ==
    IF existing # 0
    THEN bulk_update(st, existing,
                     bulk_update_head(st.payroll[existing], sc, r.days_worked),
                     sc, user)
    ELSE bulk_insert(st, r, month, year, sc, user)

\* one iteration of the loop over the spreadsheet; st holds the session's
\* payroll rows, the clock, both counters and the rows modified so far
bulk_row(st, r, month, year, user) ==
    IF ~Exists(r.emp_id)
    THEN [st EXCEPT !.error_count = st.error_count + 1]
    ELSE bulk_upsert(st, r, month, year, user,
                     bulk_components(employees[r.emp_id].ctc_monthly, r.pf_opted,
                                     r.days_worked),
                     first_existing(st.payroll, r.emp_id, month, year))

\* the loop over the rows of the spreadsheet, from the state st0
bulk_loop(st0, sheet, month, year, user) ==
    LET after[i \in 0..Len(sheet)] ==
            IF i = 0 THEN st0
            ELSE bulk_row(after[i - 1], sheet[i], month, year, user)
    IN  after[Len(sheet)]

\* db.session.commit() and the flash message after the loop
bulk_commit(st) ==
    /\ payroll' = st.payroll
    /\ clock' = st.clock
    /\ response' = [flash |-> "Successfully processed", updated |-> st.updated,
                    existing_rows |-> st.existing_rows,
                    success_count |-> st.success_count,
                    error_count |-> st.error_count]

\* the number of rows of the spreadsheet whose emp_id is in the employees table
rows_of_existing_employees(sheet) ==
    Cardinality({i \in 1..Len(sheet) : Exists(sheet[i].emp_id)})

BulkProcessPayroll(sheet, month, year, user) ==
    /\ uploads < MaxUploads
    /\ uploads' = uploads + 1
    /\ bulk_commit(bulk_loop([payroll |-> payroll, clock |-> clock,
                              updated |-> {},
                              existing_rows |-> rows_of_existing_employees(sheet),
                              success_count |-> 0,
                              error_count |-> 0],
                             sheet, month, year, user))
    /\ UNCHANGED <<employees, leave_transactions, hikes>>

(***************************************************************************)
(* apply_hike                                                              *)
(***************************************************************************)
\* hiked_employee that leaves ctc_annual as it was
hiked_employee_monthly_only(employee, hike_amount) ==
    [employee EXCEPT !.ctc_monthly = employee.ctc_monthly + hike_amount]

\* the employee row after the two assignments of apply_hike
hiked_employee(employee, hike_amount) ==
    [employee EXCEPT !.ctc_monthly = employee.ctc_monthly + hike_amount,
                     !.ctc_annual  = (employee.ctc_monthly + hike_amount) * 12]

ApplyHike(emp_id, hike_amount) ==
    IF ~Exists(emp_id)
    THEN /\ response' = [flash |-> "Employee not found!"]
         /\ UNCHANGED <<employees, leave_transactions, payroll, clock, hikes, uploads>>
    ELSE /\ hikes < MaxHikes
         /\ employees' = [employees EXCEPT
                              ![emp_id] = hiked_employee(employees[emp_id], hike_amount)]
         /\ hikes' = hikes + 1
         /\ response' = [flash |-> "Salary hike applied", emp_id |-> emp_id,
                         hike_amount |-> hike_amount]
         /\ UNCHANGED <<leave_transactions, payroll, clock, uploads>>

(***************************************************************************)
(* Specification                                                           *)
(***************************************************************************)
DoAddEmployee ==
    /\ \E emp_id \in EmpIds, form \in EmployeeForms :
          AddEmployee(emp_id, form)
    /\ UNCHANGED idle

\* the submissions explored: every form for every employee and period, and
\* one of each employee whose year does not parse
PayrollRequests ==
    [emp_id : EmpIds \cup UnknownEmpIds, month : Months, year_text : YearTexts,
     form : Forms]
    \cup {q \in [emp_id : EmpIds \cup UnknownEmpIds, month : Months,
                  year_text : UnparsableYearTexts, form : Forms] :
             q.month = "September" /\ q.form.leaves_taken = 0}

DoProcessIndividualPayroll ==
    /\ \E q \in PayrollRequests :
          process_individual_payroll(q.emp_id, q.month, q.year_text, q.form)
    /\ UNCHANGED idle

DoBulkProcessPayroll ==
    /\ \E sheet \in Sheets, month \in Months, year \in Years, user \in Users :
          BulkProcessPayroll(sheet, month, year, user)
    /\ UNCHANGED idle

DoApplyHike ==
    /\ \E emp_id \in EmpIds \cup UnknownEmpIds, hike_amount \in HikeInputs :
          ApplyHike(emp_id, hike_amount)
    /\ UNCHANGED idle

DoBulkAddEmployees ==
    /\ \E sheet \in EmployeeSheets : BulkAddEmployees(sheet)
    /\ UNCHANGED idle

DoEmployeeDashboard ==
    /\ \E emp_id \in EmpIds \cup UnknownEmpIds, month \in CurrentMonths, year \in Years :
          EmployeeDashboard(emp_id, month, year)
    /\ UNCHANGED idle

DoDashboard ==
    /\ Dashboard
    /\ UNCHANGED idle

DoSendPayslips ==
    /\ \E month \in CurrentMonths, year \in Years, user \in {"admin", "hr"} :
          SendPayslips(month, year, user)
    /\ UNCHANGED idle

DoDownloadPayslip ==
    /\ \E emp_id \in EmpIds \cup UnknownEmpIds, month \in CurrentMonths, year \in Years :
          DownloadPayslip(emp_id, month, year)
    /\ UNCHANGED idle

DoDownloadReport ==
    /\ \E month \in CurrentMonths, year \in Years, user \in {"admin", "hr"} :
          DownloadReport(month, year, user)
    /\ UNCHANGED idle

Next ==
    \/ DoAddEmployee
    \/ DoBulkAddEmployees
    \/ DoProcessIndividualPayroll
    \/ DoBulkProcessPayroll
    \/ DoApplyHike
    \/ DoEmployeeDashboard
    \/ DoDashboard
    \/ DoSendPayslips
    \/ DoDownloadPayslip
    \/ DoDownloadReport

Spec == Init /\ [][Next]_vars

(***************************************************************************)
(* process_individual_payroll served to several clients at once.  Each     *)
(* request has its own session; it reads what is committed, and its writes *)
(* reach the tables at db.session.commit().  A request stops in three      *)
(* places: after calculate_leave_balance, after the query for the existing *)
(* Payroll row (which first flushes the session), and after the commit.    *)
(***************************************************************************)
\* the rows a request in flight has read, and the balance it settles from
settled_request(q, employee, prev) ==
    [at       |-> "settled",
     emp_id   |-> q.emp_id,
     month    |-> q.month,
     year     |-> int_of_text(q.year_text),
     form     |-> q.form,
     employee |-> employee,
     prev     |-> prev,
     cur      |-> current_balance_of(employee, prev)]

\* lines 2585-2598: the employee is loaded, the breakdown computed and
\* calculate_leave_balance run on the session of request r
RaceSettle(r, q) ==
    /\ requests[r].at = "none"
    /\ Exists(q.emp_id)
    /\ \E prev \in PrevChoices(q.emp_id) :
          requests' = [requests EXCEPT
                          ![r] = settled_request(q, employees[q.emp_id], prev)]
    /\ UNCHANGED <<employees, leave_transactions, payroll, clock, hikes, uploads,
                   response, database, components, employee_rows>>

\* the flush of request r holds an UPDATE of the employee row: the balance
\* assigned differs from the one loaded
updates_employee(req) ==
    leave_info_of(req.form.leaves_taken, req.cur).remaining_balance #
        req.employee.leave_balance

\* the flush of request r has to wait for request o to commit: SQLite lets
\* one transaction write at a time, PostgreSQL makes the second UPDATE of a
\* row wait for the first
waits_for(r, o) ==
    /\ o # r
    /\ requests[o].at = "flushed"
    /\ \/ database = "sqlite"
       \/ /\ requests[o].emp_id = requests[r].emp_id
          /\ updates_employee(requests[o])
          /\ updates_employee(requests[r])

\* lines 2622-2624: the query for the existing Payroll row flushes the
\* session of request r, then reads the committed rows
RaceLookup(r) ==
    /\ requests[r].at = "settled"
    /\ \A o \in RequestIds : ~waits_for(r, o)
    /\ requests' = [requests EXCEPT
                       ![r] = [at       |-> "flushed",
                               emp_id   |-> requests[r].emp_id,
                               month    |-> requests[r].month,
                               year     |-> requests[r].year,
                               form     |-> requests[r].form,
                               employee |-> requests[r].employee,
                               prev     |-> requests[r].prev,
                               cur      |-> requests[r].cur,
                               existing |-> first_existing(payroll, requests[r].emp_id,
                                                           requests[r].month,
                                                           requests[r].year)]]
    /\ UNCHANGED <<employees, leave_transactions, payroll, clock, hikes, uploads,
                   response, database, components, employee_rows>>

\* the writes of request req reach the tables
race_commit(r, req, sc, info) ==
    /\ leave_transactions' =
          add_leave_transaction(leave_transactions,
              leave_transaction_of(req.emp_id, req.month, req.year,
                                   req.form.leaves_taken, req.cur))
    /\ employees' = IF updates_employee(req)
                    THEN set_leave_balance(employees, req.emp_id,
                                           info.remaining_balance)
                    ELSE employees
    /\ payroll' = upsert_payroll(payroll, req.existing,
                      individual_payroll_row(req.emp_id, req.month, req.year, req.form,
                          info, adjusted_components(sc, info, req.form), clock + 1))
    /\ clock' = clock + 1
    /\ response' = [flash |-> "Payroll processed successfully",
                    emp_id |-> req.emp_id, month |-> req.month, year |-> req.year,
                    form |-> req.form, prev |-> req.prev, existing |-> req.existing,
                    ctc_monthly |-> period_ctc(req.employee, req.form.hike_amount),
                    salary_components |-> sc,
                    leave_info |-> info]
    /\ requests' = [requests EXCEPT
                       ![r] = [at |-> "done", emp_id |-> req.emp_id,
                               month |-> req.month, year |-> req.year,
                               form |-> req.form]]

\* lines 2626-2702: the Payroll row is written and the session committed
RaceCommit(r) ==
    /\ requests[r].at = "flushed"
    /\ race_commit(r, requests[r],
           calculate_salary_components(
               period_ctc(requests[r].employee, requests[r].form.hike_amount),
               requests[r].form.pf_opted, requests[r].form.deduction_amount),
           leave_info_of(requests[r].form.leaves_taken, requests[r].cur))
    /\ UNCHANGED <<hikes, uploads, database, components, employee_rows>>

\* a submission that uses exactly the month's allocation: the balance
\* assigned is the one a new employee was loaded with
AllocationForms ==
    { [leaves_taken |-> 3, pf_opted |-> FALSE, hike_amount |-> 0,
       deduction_amount |-> 0, deduction_reason |-> "",
       overtime_amount |-> 0, expenses |-> 0, bonus |-> 0, user |-> "accounts"] }

\* the submissions of concurrent clients, for one employee
RaceRequests ==
    {q \in PayrollRequests : q.emp_id \in EmpIds /\ is_int(q.year_text)} \cup
    {[emp_id |-> e, month |-> "September", year_text |-> y, form |-> f] :
        e \in EmpIds, y \in YearTexts, f \in AllocationForms}

DoRaceSettle == \E r \in RequestIds, q \in RaceRequests : RaceSettle(r, q)

DoRaceLookup == \E r \in RequestIds : RaceLookup(r)

DoRaceCommit == \E r \in RequestIds : RaceCommit(r)

RaceInit ==
    /\ employees = [e \in StoredEmpIds |-> NoEmployee]
    /\ leave_transactions = <<>>
    /\ payroll = <<>>
    /\ clock = 0
    /\ hikes = 0
    /\ uploads = 0
    /\ response = [flash |-> ""]
    /\ database \in Databases
    /\ requests = [r \in RequestIds |-> NoRequest]
    /\ components = NoCall
    /\ employee_rows = <<>>

RaceNext ==
    \/ DoAddEmployee
    \/ DoRaceSettle
    \/ DoRaceLookup
    \/ DoRaceCommit

SpecRace == RaceInit /\ [][RaceNext]_vars

(***************************************************************************)
(* calculate_salary_components on its own, on amounts of any number of     *)
(* paise.  The amounts are binary floating-point numbers: a product that   *)
(* falls, in decimal, exactly halfway between two paise is a little above  *)
(* or below the half as a float, and round(x, 2) goes the way it falls.    *)
(***************************************************************************)
\* round(n / d) where a decimal tie goes up or down as the float falls
round_product(n, d, up) ==
    IF 2 * (n % d) = d
    THEN IF up THEN ((n - (n % d)) \div d) + 1 ELSE (n - (n % d)) \div d
    ELSE round(n, d)

\* salary_components with hra taken as 20% of the CTC
salary_components_hra_of_ctc(ctc_monthly, pf_opted, additional_deduction, basic_up, allowance_up) ==
    salary_totals(salary_lines(ctc_monthly,
                               round_product(ctc_monthly * 50, 100, basic_up),
                               round(ctc_monthly * 20, 100),
                               round_product(ctc_monthly * 5, 100, allowance_up),
                               round_product(ctc_monthly * 5, 100, allowance_up),
                               pf_opted, additional_deduction))

\* salary_components with the special allowance taken as 30% of the CTC
salary_components_fixed_special(ctc_monthly, pf_opted, additional_deduction, basic_up, allowance_up) ==
    [salary_components_hra_of_ctc(ctc_monthly, pf_opted, additional_deduction,
                                  basic_up, allowance_up)
        EXCEPT !.hra = round(round_product(ctc_monthly * 50, 100, basic_up) * 20, 100),
               !.special_allowance = round(ctc_monthly * 30, 100)]

\* the dictionary calculate_salary_components returns
salary_components(ctc_monthly, pf_opted, additional_deduction, basic_up, allowance_up) ==
    salary_totals(salary_lines(ctc_monthly,
                               round_product(ctc_monthly * 50, 100, basic_up),
                               round(round_product(ctc_monthly * 50, 100, basic_up) * 20, 100),
                               round_product(ctc_monthly * 5, 100, allowance_up),
                               round_product(ctc_monthly * 5, 100, allowance_up),
                               pf_opted, additional_deduction))

\* the monthly CTCs the function is called with: every amount of up to
\* MaxCtc paise, of either sign (a one-off hike may be negative), and the
\* CTCs of the employee forms and spreadsheets, with and without a hike
CtcInputs ==
    {c - MaxCtc : c \in 0..(2 * MaxCtc)} \cup
    {f.ctc_monthly : f \in EmployeeForms} \cup
    {r.ctc_monthly : r \in EmployeeRows} \cup
    {f.ctc_monthly + h : f \in EmployeeForms, h \in HikeInputs}

DeductionInputs == {f.deduction_amount : f \in Forms}

CalculateSalaryComponents(basic_up, allowance_up) ==
    /\ components.at = "called"
    /\ components' = [at |-> "returned",
                      ctc_monthly |-> components.ctc_monthly,
                      pf_opted |-> components.pf_opted,
                      additional_deduction |-> components.additional_deduction,
                      result |-> salary_components(components.ctc_monthly,
                                                   components.pf_opted,
                                                   components.additional_deduction,
                                                   basic_up, allowance_up)]
    /\ UNCHANGED <<employees, leave_transactions, payroll, clock, hikes, uploads,
                   response, database, requests, employee_rows>>

DoCalculateSalaryComponents ==
    \E basic_up, allowance_up \in BOOLEAN :
        CalculateSalaryComponents(basic_up, allowance_up)

InitComponents ==
    /\ employees = [e \in StoredEmpIds |-> NoEmployee]
    /\ leave_transactions = <<>>
    /\ payroll = <<>>
    /\ clock = 0
    /\ hikes = 0
    /\ uploads = 0
    /\ response = [flash |-> ""]
    /\ database = "sqlite"
    /\ requests = [r \in RequestIds |-> NoRequest]
    /\ components \in [at : {"called"}, ctc_monthly : CtcInputs, pf_opted : BOOLEAN,
                       additional_deduction : DeductionInputs]
    /\ employee_rows = <<>>

NextComponents == DoCalculateSalaryComponents

SpecComponents == InitComponents /\ [][NextComponents]_vars

(***************************************************************************)
(* Payroll runs with views of the employee dashboard between them.         *)
(***************************************************************************)
DoViewEmployeeDashboard ==
    /\ \E emp_id \in EmpIds \cup UnknownEmpIds, month \in CurrentMonths,
          year_text \in YearTexts :
          ViewEmployeeDashboard(emp_id, month, int_of_text(year_text))
    /\ UNCHANGED idle

NextDashboard ==
    \/ DoAddEmployee
    \/ DoProcessIndividualPayroll
    \/ DoViewEmployeeDashboard

SpecDashboard == Init /\ [][NextDashboard]_vars

(***************************************************************************)
(* role_required: the five endpoints that write, requested by a visitor    *)
(* who is not logged in or by one of the three default users.              *)
(***************************************************************************)
\* a visitor without a session: current_user.is_authenticated is False
Anonymous == "anonymous"

Visitors == Users \cup {Anonymous}

is_authenticated(user) == user \in Users

\* the role column of the default users
role_of(user) ==
    CASE user = "admin"    -> "admin"
      [] user = "hr"       -> "hr"
      [] user = "accounts" -> "accounts"

\* role_required that lets every logged-in user through
role_required_any_role(user, roles) ==
    IF ~is_authenticated(user) THEN "login" ELSE "handler"

\* where the decorated function goes: to the login page, back to the
\* dashboard, or into the handler
role_required(user, roles) ==
    IF ~is_authenticated(user) THEN "login"
    ELSE IF role_of(user) \notin roles THEN "dashboard"
    ELSE "handler"

\* the redirect returned in place of the handler
redirect_without_handler(target) ==
    /\ response' = [flash |-> IF target = "dashboard"
                              THEN "You do not have permission to access this page."
                              ELSE "",
                    redirect |-> target]
    /\ UNCHANGED <<employees, leave_transactions, payroll, clock, hikes, uploads>>

\* the request being answered: its endpoint and current_user
served(endpoint, user) ==
    /\ requests' = [requests EXCEPT
                       ![1] = [at |-> "served", endpoint |-> endpoint, user |-> user]]
    /\ UNCHANGED <<database, components, employee_rows>>

\* the submissions of the role check: one period, the plain form, one-row
\* spreadsheets
RolePayrollRequests ==
    {q \in PayrollRequests : /\ q.month = "September"
                             /\ is_int(q.year_text)
                             /\ q.form.leaves_taken = 0}

RoleSheets == {sheet \in Sheets : Len(sheet) = 1}

RoleEmployeeSheets == {sheet \in EmployeeSheets : Len(sheet) = 1}

RequestAddEmployee(user) ==
    /\ served("add_employee", user)
    /\ IF role_required(user, {"admin", "hr"}) = "handler"
       THEN \E emp_id \in EmpIds, form \in EmployeeForms : AddEmployee(emp_id, form)
       ELSE redirect_without_handler(role_required(user, {"admin", "hr"}))

RequestBulkAddEmployees(user) ==
    /\ served("bulk_add_employees", user)
    /\ IF role_required(user, {"admin", "hr"}) = "handler"
       THEN \E sheet \in RoleEmployeeSheets : BulkAddEmployees(sheet)
       ELSE redirect_without_handler(role_required(user, {"admin", "hr"}))

RequestProcessIndividualPayroll(user) ==
    /\ served("process_individual_payroll", user)
    /\ IF role_required(user, {"admin", "hr", "accounts"}) = "handler"
       THEN \E q \in RolePayrollRequests :
               process_individual_payroll(q.emp_id, q.month, q.year_text,
                                          [q.form EXCEPT !.user = user])
       ELSE redirect_without_handler(
                role_required(user, {"admin", "hr", "accounts"}))

RequestBulkProcessPayroll(user) ==
    /\ served("bulk_process_payroll", user)
    /\ IF role_required(user, {"admin", "hr", "accounts"}) = "handler"
       THEN \E sheet \in RoleSheets, month \in CurrentMonths, year \in Years :
               BulkProcessPayroll(sheet, month, year, user)
       ELSE redirect_without_handler(
                role_required(user, {"admin", "hr", "accounts"}))

RequestApplyHike(user) ==
    /\ served("apply_hike", user)
    /\ IF role_required(user, {"admin"}) = "handler"
       THEN \E emp_id \in EmpIds \cup UnknownEmpIds, hike_amount \in HikeInputs :
               ApplyHike(emp_id, hike_amount)
       ELSE redirect_without_handler(role_required(user, {"admin"}))

NextRoles ==
    \/ \E user \in Visitors : RequestAddEmployee(user)
    \/ \E user \in Visitors : RequestBulkAddEmployees(user)
    \/ \E user \in Visitors : RequestProcessIndividualPayroll(user)
    \/ \E user \in Visitors : RequestBulkProcessPayroll(user)
    \/ \E user \in Visitors : RequestApplyHike(user)

SpecRoles == Init /\ [][NextRoles]_vars

(***************************************************************************)
(* add_employee and bulk_add_employees on the employees table row by row,  *)
(* with the columns the duplicate checks read.  (The variable employees is *)
(* this table indexed by emp_id.)                                          *)
(***************************************************************************)
\* e-mail addresses submitted; the last one does not match email_pattern
EmailInputs == {"a@x.in", "b@x.in", "nobody"}

is_valid_email(email) == email # "nobody"

\* submissions of the form and rows of the spreadsheet: all required fields
\* present
EmployeeSubmissions ==
    [emp_id : StoredEmpIds, email : EmailInputs, ctc_monthly : {3000000, 0},
     pf_opted : BOOLEAN]

EmployeeFiles == UNION {[1..n -> EmployeeSubmissions] : n \in 1..MaxFileRows}

\* filter_by(email=...).first() that never finds a row
find_email_none(rows, email) == 0

\* db.session.query(Employee).filter_by(emp_id=emp_id).first(), 0 for None
find_emp_id(rows, emp_id) ==
    IF \E i \in 1..Len(rows) : rows[i].emp_id = emp_id
    THEN CHOOSE i \in 1..Len(rows) :
            /\ rows[i].emp_id = emp_id
            /\ \A j \in 1..(i - 1) : rows[j].emp_id # emp_id
    ELSE 0

\* db.session.query(Employee).filter_by(email=email).first(), 0 for None
find_email(rows, email) ==
    IF \E i \in 1..Len(rows) : rows[i].email = email
    THEN CHOOSE i \in 1..Len(rows) :
            /\ rows[i].email = email
            /\ \A j \in 1..(i - 1) : rows[j].email # email
    ELSE 0

\* the checks both handlers make, in their order; "" when the row is accepted
employee_error(rows, sub) ==
    IF find_emp_id(rows, sub.emp_id) # 0 THEN "Employee ID already exists"
    ELSE IF find_email(rows, sub.email) # 0 THEN "Email already exists"
    ELSE IF sub.ctc_monthly <= 0 THEN "Monthly CTC must be greater than 0"
    ELSE IF ~is_valid_email(sub.email) THEN "Invalid email format"
    ELSE ""

\* the Employee row built from an accepted submission
employee_row(sub) ==
    [emp_id        |-> sub.emp_id,
     email         |-> sub.email,
     ctc_monthly   |-> sub.ctc_monthly,
     ctc_annual    |-> sub.ctc_monthly * 12,
     pf_opted      |-> sub.pf_opted,
     leave_balance |-> default_leave_balance]

AddEmployeeRow(sub) ==
    /\ IF employee_error(employee_rows, sub) # ""
       THEN /\ response' = [flash |-> employee_error(employee_rows, sub)]
            /\ UNCHANGED employee_rows
       ELSE /\ employee_rows' = Append(employee_rows, employee_row(sub))
            /\ response' = [flash |-> "added"]
    /\ UNCHANGED <<employees, leave_transactions, payroll, clock, hikes, uploads,
                   database, requests, components>>

\* one row of the spreadsheet; st.rows are the rows the session's queries
\* see: the committed ones and, flushed before each query, those added so far
add_file_row(st, sub) ==
    IF employee_error(st.rows, sub) # ""
    THEN [st EXCEPT !.error_count = st.error_count + 1,
                    !.error_details = Append(st.error_details,
                                             employee_error(st.rows, sub))]
    ELSE [st EXCEPT !.rows = Append(st.rows, employee_row(sub)),
                    !.success_count = st.success_count + 1]

add_file_loop(st0, file) ==
    LET after[i \in 0..Len(file)] ==
            IF i = 0 THEN st0 ELSE add_file_row(after[i - 1], file[i])
    IN  after[Len(file)]

\* the commit when at least one row was added, and the flash messages
add_file_commit(st) ==
    /\ employee_rows' = IF st.success_count > 0 THEN st.rows ELSE employee_rows
    /\ response' = [flash |-> bulk_add_flash(st),
                    success_count |-> st.success_count,
                    error_count |-> st.error_count,
                    error_details |-> st.error_details]

BulkAddEmployeeRows(file) ==
    /\ uploads < MaxUploads
    /\ uploads' = uploads + 1
    /\ add_file_commit(add_file_loop([rows |-> employee_rows, success_count |-> 0,
                                      error_count |-> 0, error_details |-> <<>>],
                                     file))
    /\ UNCHANGED <<employees, leave_transactions, payroll, clock, hikes,
                   database, requests, components>>

DoAddEmployeeRow == \E sub \in EmployeeSubmissions : AddEmployeeRow(sub)

DoBulkAddEmployeeRows == \E file \in EmployeeFiles : BulkAddEmployeeRows(file)

NextEmployees ==
    \/ DoAddEmployeeRow
    \/ DoBulkAddEmployeeRows

SpecEmployees == Init /\ [][NextEmployees]_vars

(***************************************************************************)
(* Properties.  Days are in half-days and money in paise throughout.       *)
(***************************************************************************)
\* the last request was a process_individual_payroll that committed
Processed == response.flash = "Payroll processed successfully"

\* the LeaveTransaction appended by the last committed individual run
LastTransaction == leave_transactions[Len(leave_transactions)]

\* the Payroll row written by the last committed individual run
LastPayroll ==
    payroll[first_existing(payroll, response.emp_id, response.month, response.year)]

\* the balance the last settlement started from: the closing balance of the
\* row the query returned, or the balance given at creation when it returned none
StartingBalance ==
    IF response.prev # 0
    THEN leave_transactions[response.prev].balance_after
    ELSE default_leave_balance

\* period of row a lies before the period of row b in the calendar
CalendarBefore(a, b) ==
    \/ a.year < b.year
    \/ a.year = b.year /\ CalendarIndex(a.month) < CalendarIndex(b.month)

SamePeriod(a, b) == a.emp_id = b.emp_id /\ a.month = b.month /\ a.year = b.year

\* C1: when the periods of an employee are processed in calendar order, each
\* once, every settlement's balance_before is the balance_after of the
\* settlement of the period just before it.
C1_StartsFromPrecedingPeriod ==
    \A e \in EmpIds :
        LET T == TransactionsOf(e)
        IN  (\A i, j \in T : i < j =>
                CalendarBefore(leave_transactions[i], leave_transactions[j]))
            => \A i, j \in T :
                 (i < j /\ ~(\E k \in T : i < k /\ k < j))
                 => leave_transactions[j].balance_before =
                    leave_transactions[i].balance_after

\* C2: a settlement that starts from balance b >= 0 with t >= 0 leaves taken
\* has, with available = b + 1.5 days: used = min(t, available),
\* loss of pay = max(0, t - available), remaining = available - used,
\* paid_days = 30 - loss of pay and present_days = 30 - t.
C2_SettlementArithmetic ==
    Processed =>
        LET b == StartingBalance
            t == response.form.leaves_taken
            available == b + 3
            info == response.leave_info
        IN  /\ b >= 0 /\ t >= 0
            /\ LastTransaction.balance_before = b
            /\ info.leave_balance_used = (IF t <= available THEN t ELSE available)
            /\ info.loss_of_pay_days = (IF t > available THEN t - available ELSE 0)
            /\ info.remaining_balance = available - info.leave_balance_used
            /\ info.paid_days = 60 - info.loss_of_pay_days
            /\ info.present_days = 60 - t

\* a settlement from an empty balance whose leaves exceed the allocation
C2_Witness ==
    /\ Processed
    /\ StartingBalance = 0
    /\ response.leave_info.leave_balance_used = 3
    /\ response.leave_info.loss_of_pay_days = 4
    /\ response.leave_info.remaining_balance = 0

\* the closing balance of the period before the period of ledger row n: the
\* balance_after of the latest row of the nearest earlier period settled
\* before n, or the balance given at creation when there is none
ClosingBalanceBefore(n) ==
    LET row == leave_transactions[n]
        E == {i \in 1..(n - 1) :
                /\ leave_transactions[i].emp_id = row.emp_id
                /\ CalendarBefore(leave_transactions[i], row)}
        L == {i \in E : \A j \in E :
                ~CalendarBefore(leave_transactions[i], leave_transactions[j])}
    IN  IF E = {} THEN default_leave_balance
        ELSE leave_transactions[CHOOSE i \in L : \A j \in L : j <= i].balance_after

\* ledger row n settles a period that an earlier row already settled
Resettles(n) ==
    \E i \in 1..(n - 1) : SamePeriod(leave_transactions[i], leave_transactions[n])

\* C3: re-settling a period starts from the closing balance of the period
\* before it, not from the balance the earlier settlement of that period left.
C3_ResettleStartsFromPriorPeriod ==
    \A n \in 1..Len(leave_transactions) :
        Resettles(n) => leave_transactions[n].balance_before = ClosingBalanceBefore(n)

\* C4: there is at most one Payroll row per (emp_id, month, year).
C4_OnePayrollPerKey ==
    \A i, j \in 1..Len(payroll) : SamePeriod(payroll[i], payroll[j]) => i = j

\* a key processed twice by the individual form, then touched by a spreadsheet
C4_Witness ==
    /\ \E i, j \in 1..Len(leave_transactions) :
          i < j /\ SamePeriod(leave_transactions[i], leave_transactions[j])
                /\ \E k \in 1..Len(payroll) :
                      SamePeriod(payroll[k], leave_transactions[i])
    /\ uploads > 0
    /\ Len(payroll) > 0

\* the nine earning lines of a stored Payroll row
EarningsOf(r) ==
    r.basic_salary + r.hra + r.special_allowance + r.conveyance_allowance +
    r.medical_allowance + r.overtime_amount + r.expenses + r.bonus +
    r.leave_balance_amount

\* the deduction lines of a stored Payroll row
DeductionsOf(r) ==
    r.pf_employee + r.vpf + r.pt + r.charity + r.misc_deduction +
    r.additional_deduction

\* C5: every stored Payroll row has gross_salary equal to the sum of its nine
\* earning lines, whichever operation wrote it last.
C5_GrossIsSumOfEarnings ==
    \A i \in 1..Len(payroll) : payroll[i].gross_salary = EarningsOf(payroll[i])

\* the Payroll rows that the last request found existing and wrote to
Resubmitted ==
    IF Processed
    THEN IF response.existing # 0 THEN {response.existing} ELSE {}
    ELSE IF response.flash = "Successfully processed" THEN response.updated
    ELSE {}

\* C6: after a key is submitted again, its row holds the new submission
\* throughout: the totals are those of the attendance and earning lines now
\* stored, none of them is left from the earlier run.
C6_ResubmissionOverwritesAll ==
    \A i \in Resubmitted :
        /\ payroll[i].gross_salary = EarningsOf(payroll[i])
        /\ payroll[i].total_deductions = DeductionsOf(payroll[i])
        /\ payroll[i].net_salary = payroll[i].gross_salary - payroll[i].total_deductions

\* C7: when loss-of-pay days are positive and PF is opted, the stored PF is
\* min(12% of the stored (scaled) basic, 1800) for employee and employer, and
\* total_deductions and net_salary use it.
C7_PfFromScaledBasic ==
    (Processed /\ response.leave_info.loss_of_pay_days > 0 /\ response.form.pf_opted)
    => LET r == LastPayroll
           pf == IF r.basic_salary * 12 < 180000 * 100
                 THEN round(r.basic_salary * 12, 100) ELSE 180000
       IN  /\ r.pf_employee = pf
           /\ r.pf_employer = pf
           /\ r.total_deductions = pf + r.additional_deduction
           /\ r.net_salary = r.gross_salary - r.total_deductions

\* C8: net_salary = gross_salary - total_deductions in every stored Payroll
\* row and in every breakdown returned by calculate_salary_components.
C8_NetIsGrossMinusDeductions ==
    /\ \A i \in 1..Len(payroll) :
          payroll[i].net_salary = payroll[i].gross_salary - payroll[i].total_deductions
    /\ Processed =>
          response.salary_components.net_salary =
              response.salary_components.gross_salary -
              response.salary_components.total_deductions

\* a row written with loss of pay, variable earnings and an additional
\* deduction, then touched by a spreadsheet upload
C8_Witness ==
    /\ response.flash = "Successfully processed"
    /\ \E i \in response.updated :
          /\ payroll[i].additional_deduction > 0
          /\ payroll[i].total_deductions > payroll[i].additional_deduction
          /\ payroll[i].net_salary > 0

\* the last request submitted no leave and no adjustment
PlainSubmission ==
    /\ Processed
    /\ response.form.leaves_taken = 0
    /\ response.form.hike_amount = 0
    /\ response.form.deduction_amount = 0
    /\ response.form.overtime_amount = 0
    /\ response.form.expenses = 0
    /\ response.form.bonus = 0

\* C9 as stated: with no leave and no adjustments the stored gross_salary is
\* the employee's ctc_monthly and net_salary is ctc_monthly - pf_employee.
C9_GrossIsCtc ==
    PlainSubmission =>
        /\ LastPayroll.gross_salary = employees[response.emp_id].ctc_monthly
        /\ LastPayroll.net_salary =
              employees[response.emp_id].ctc_monthly - LastPayroll.pf_employee

\* C9 amended: with no leave and no adjustments the stored gross_salary is
\* ctc_monthly plus leave_balance_amount, which is 100 per day of the leave
\* balance remaining after the settlement, and net_salary is gross_salary
\* minus pf_employee (CTC 50000 with PF: pf_employee 1800).
C9_GrossIsCtcPlusLeaveAmount ==
    PlainSubmission =>
        LET r == LastPayroll
            e == employees[response.emp_id]
        IN  /\ r.leave_balance_amount = e.leave_balance * 5000
            /\ r.gross_salary = e.ctc_monthly + r.leave_balance_amount
            /\ r.net_salary = r.gross_salary - r.pf_employee
            /\ (e.ctc_monthly = 5000000 /\ response.form.pf_opted)
                  => r.pf_employee = 180000

\* a newly added employee with CTC 50000 processed with PF, no leave and no
\* adjustments: gross 50300, PF 1800, net 48500
C9_Witness ==
    /\ PlainSubmission
    /\ employees[response.emp_id].ctc_monthly = 5000000
    /\ LastPayroll.gross_salary = 5030000
    /\ LastPayroll.pf_employee = 180000
    /\ LastPayroll.net_salary = 4850000

\* C10: every Payroll row written by process_individual_payroll has
\* present_days + leaves_taken = total_days = 30 and
\* paid_days = total_days - loss_of_pay_days.
C10_AttendanceAddsUp ==
    Processed =>
        LET r == LastPayroll
        IN  /\ r.total_days = 60
            /\ r.present_days + r.leaves_taken = r.total_days
            /\ r.paid_days = r.total_days - r.loss_of_pay_days

\* the step is a committed process_individual_payroll that found a Payroll
\* row for its key
Rerun ==
    /\ response'.flash = "Payroll processed successfully"
    /\ clock' = clock + 1
    /\ response'.existing # 0

\* the submitted inputs of the re-run are those stored by the earlier run, no
\* spreadsheet has touched the row, and the settlement gives the same
\* loss-of-pay days as it gave then
RerunWithSameInputs ==
    /\ Rerun
    /\ uploads = 0
    /\ LET old == payroll[response'.existing]
           f   == response'.form
       IN  /\ old.leaves_taken = f.leaves_taken
           /\ old.hike_amount = f.hike_amount
           /\ old.additional_deduction = f.deduction_amount
           /\ old.overtime_amount = f.overtime_amount
           /\ old.expenses = f.expenses
           /\ old.bonus = f.bonus
           /\ (old.pf_employee > 0) = f.pf_opted
           /\ old.loss_of_pay_days = response'.leave_info.loss_of_pay_days

\* C11: re-running a period with the inputs of its earlier run gives the
\* basic, hra, allowances and PF of that earlier run, also when a permanent
\* hike was applied to the employee in between.
C11_RerunUnaffectedByHike ==
    [][RerunWithSameInputs =>
          LET old == payroll[response'.existing]
              new == payroll'[response'.existing]
          IN  /\ new.basic_salary = old.basic_salary
              /\ new.hra = old.hra
              /\ new.special_allowance = old.special_allowance
              /\ new.conveyance_allowance = old.conveyance_allowance
              /\ new.medical_allowance = old.medical_allowance
              /\ new.pf_employee = old.pf_employee
              /\ new.pf_employer = old.pf_employer]_vars

\* the step is a committed process_individual_payroll
Commits ==
    /\ response'.flash = "Payroll processed successfully"
    /\ clock' = clock + 1

\* amount is pct percent of base, rounded to the nearest paisa
IsPercentOf(amount, pct, base) ==
    /\ 100 * amount - pct * base <= 50
    /\ pct * base - 100 * amount <= 50

\* C12: a one-off hike entered in process_individual_payroll is added to the
\* stored ctc_monthly for the components of that period only; the stored
\* ctc_monthly and ctc_annual are not changed by the operation, so a period
\* processed with hike 0 is computed from the stored CTC.
C12_OneOffHikeThisPeriodOnly ==
    [][Commits =>
          LET e   == response'.emp_id
              f   == response'.form
              sc  == response'.salary_components
              ctc == employees[e].ctc_monthly + f.hike_amount
          IN  /\ response'.ctc_monthly = ctc
              /\ IsPercentOf(sc.basic, 50, ctc)
              /\ IsPercentOf(sc.conveyance_allowance, 5, ctc)
              /\ sc.basic + sc.hra + sc.conveyance_allowance +
                 sc.medical_allowance + sc.special_allowance = ctc
              /\ response'.leave_info.loss_of_pay_days = 0 =>
                    payroll'[first_existing(payroll', e, response'.month,
                                            response'.year)].basic_salary = sc.basic
              /\ employees'[e].ctc_monthly = employees[e].ctc_monthly
              /\ employees'[e].ctc_annual = employees[e].ctc_annual]_vars

\* a period processed with a one-off hike of 5000, then a later run with
\* hike 0 whose basic is half the stored CTC, which no permanent hike changed
C12_Witness ==
    /\ hikes = 0
    /\ \E i, j \in 1..Len(payroll) :
          /\ payroll[i].hike_amount = 500000
          /\ payroll[j].hike_amount = 0
          /\ payroll[j].processed_at > payroll[i].processed_at
          /\ Exists(payroll[j].emp_id)
          /\ 2 * payroll[j].basic_salary = employees[payroll[j].emp_id].ctc_monthly
          /\ payroll[j].loss_of_pay_days = 0

\* the step is a committed apply_hike
Hikes ==
    /\ response'.flash = "Salary hike applied"
    /\ hikes' = hikes + 1

\* C13: apply_hike sets the stored ctc_monthly to its old value plus the
\* amount and ctc_annual to 12 times the new ctc_monthly (5000 on 50000 gives
\* 55000 and 660000), and ctc_annual = 12 x ctc_monthly for every employee in
\* every reachable state.
C13_AnnualIsTwelveTimesMonthly ==
    /\ [](\A e \in StoredEmpIds :
             Exists(e) => employees[e].ctc_annual = 12 * employees[e].ctc_monthly)
    /\ [][Hikes =>
             LET e == response'.emp_id
             IN  /\ employees'[e].ctc_monthly =
                       employees[e].ctc_monthly + response'.hike_amount
                 /\ employees'[e].ctc_annual = 12 * employees'[e].ctc_monthly
                 /\ (employees[e].ctc_monthly = 5000000 /\ response'.hike_amount = 500000)
                       => /\ employees'[e].ctc_monthly = 5500000
                          /\ employees'[e].ctc_annual = 66000000]_vars

\* an employee added by the form, hiked from 50000 to 55000 and processed,
\* beside an employee added from a spreadsheet
C13_Witness ==
    /\ hikes = 1
    /\ Exists("E1") /\ Exists("E2")
    /\ employees["E1"].ctc_monthly = 5500000
    /\ employees["E1"].ctc_annual = 66000000
    /\ employees["E2"].ctc_annual = 36000000
    /\ Len(payroll) > 0

\* the step commits a leave settlement of employee e: one ledger row of e is
\* appended and its balance_after is the new stored leave_balance
SettlesLeave(e) ==
    /\ Commits
    /\ response'.emp_id = e
    /\ Len(leave_transactions') = Len(leave_transactions) + 1
    /\ leave_transactions'[Len(leave_transactions')].emp_id = e
    /\ leave_transactions'[Len(leave_transactions')].balance_after =
          employees'[e].leave_balance

\* the step is a committed apply_hike on employee e
HikesEmployee(e) == Hikes /\ response'.emp_id = e

\* C14: the stored leave_balance of an existing employee changes only in a
\* step that commits a leave settlement of payroll processing, and the stored
\* ctc_monthly only in an apply_hike step; every other handler leaves both
\* fields of every existing employee unchanged.
C14_BalanceAndCtcFrame ==
    [][\A e \in StoredEmpIds :
          Exists(e) =>
             /\ Exists(e)'
             /\ employees'[e].leave_balance # employees[e].leave_balance
                   => SettlesLeave(e)
             /\ employees'[e].ctc_monthly # employees[e].ctc_monthly
                   => HikesEmployee(e)]_vars

\* an employee whose balance a settlement changed and whose CTC a hike
\* changed, after a spreadsheet of new employees added another employee
C14_Witness ==
    /\ Exists("E1") /\ Exists("E2")
    /\ employees["E1"].leave_balance # default_leave_balance
    /\ hikes = 1
    /\ uploads = 1
    /\ employees["E2"].leave_balance = default_leave_balance
    /\ Len(leave_transactions) = 2

\* the three writes of a committed process_individual_payroll: one ledger row
\* for the submitted key, the employee's balance set to its balance_after,
\* and the key's Payroll row written at this commit
AllCommitted ==
    /\ Commits
    /\ Len(leave_transactions') = Len(leave_transactions) + 1
    /\ SubSeq(leave_transactions', 1, Len(leave_transactions)) = leave_transactions
    /\ LET t == leave_transactions'[Len(leave_transactions')]
       IN  /\ t.emp_id = response'.emp_id
           /\ t.month = response'.month
           /\ t.year = response'.year
           /\ employees'[response'.emp_id].leave_balance = t.balance_after
    /\ \E i \in 1..Len(payroll') :
          /\ payroll'[i].emp_id = response'.emp_id
          /\ payroll'[i].month = response'.month
          /\ payroll'[i].year = response'.year
          /\ payroll'[i].processed_at = clock'
          /\ payroll'[i].leaves_taken = response'.form.leaves_taken
    /\ Len(payroll') = IF response'.existing # 0 THEN Len(payroll)
                       ELSE Len(payroll) + 1

NoneCommitted == UNCHANGED <<employees, leave_transactions, payroll>>

\* C15: process_individual_payroll commits the new LeaveTransaction, the
\* employee's leave_balance and the Payroll insert/update together, or, when
\* the employee is not found or the form does not parse, none of them: the
\* employees, the ledger and the payroll rows are as before the request.
C15_AllOrNothing ==
    [][/\ response'.flash = "Payroll processed successfully" => AllCommitted
       /\ response'.flash \in {"Error processing payroll", "Employee not found!"}
             => NoneCommitted
       /\ Len(leave_transactions') # Len(leave_transactions) => AllCommitted]_vars

\* a request whose year does not parse, after a key was processed twice
C15_Witness ==
    /\ response.flash = "Error processing payroll"
    /\ Len(leave_transactions) = 2
    /\ Len(payroll) = 1
    /\ employees["E1"].leave_balance = leave_transactions[2].balance_after

\* requests r and o, for the same key, are the only two that committed
RacedPair(r, o) ==
    /\ r # o
    /\ requests[r].at = "done"
    /\ requests[o].at = "done"
    /\ SamePeriod(requests[r], requests[o])
    /\ Len(leave_transactions) = 2

\* the Payroll rows of the key of a request
PayrollRowsOf(req) == {i \in 1..Len(payroll) : SamePeriod(payroll[i], req)}

\* the settlement of the second of two requests served one after the other
\* to a new employee
SerialSettlement(first, second) ==
    leave_info_of(second.form.leaves_taken,
        leave_info_of(first.form.leaves_taken,
            default_leave_balance + monthly_allocation).remaining_balance
        + monthly_allocation)

\* C16: two process_individual_payroll requests for the same employee and
\* period that interleave leave exactly one Payroll row for the key, and that
\* row and the employee's leave_balance are those of the two requests served
\* in some serial order (the later one wins).
C16_LastWriteWins ==
    \A r, o \in RequestIds :
        RacedPair(r, o) =>
            /\ Cardinality(PayrollRowsOf(requests[r])) = 1
            /\ \E first, second \in {r, o} :
                  /\ first # second
                  /\ employees[requests[r].emp_id].leave_balance =
                        SerialSettlement(requests[first],
                                         requests[second]).remaining_balance
                  /\ \A i \in PayrollRowsOf(requests[r]) :
                        /\ payroll[i].leaves_taken =
                              requests[second].form.leaves_taken
                        /\ payroll[i].loss_of_pay_days =
                              SerialSettlement(requests[first],
                                               requests[second]).loss_of_pay_days

\* the balance available to the settlement of this step: the closing balance
\* it starts from (the previous row's, or the stored one) plus 1.5 days
AvailableAtCommit ==
    IF response'.prev # 0
    THEN leave_transactions[response'.prev].balance_after + 3
    ELSE employees[response'.emp_id].leave_balance + 3

\* C17: a committed settlement appends exactly one LeaveTransaction, with
\* leaves_allocated 1.5, leaves_used the days covered by the balance,
\* balance_before the available balance less 1.5 and balance_after the
\* remaining balance, and stores the remaining balance on the employee.
C17_SettlementAppendsOneRow ==
    [][Commits =>
          /\ Len(leave_transactions') = Len(leave_transactions) + 1
          /\ SubSeq(leave_transactions', 1, Len(leave_transactions)) =
                leave_transactions
          /\ LET t    == leave_transactions'[Len(leave_transactions')]
                 info == response'.leave_info
             IN  /\ t.emp_id = response'.emp_id
                 /\ t.month = response'.month
                 /\ t.year = response'.year
                 /\ t.leaves_allocated = 3
                 /\ t.leaves_used = info.leave_balance_used
                 /\ t.leaves_used = Min(response'.form.leaves_taken,
                                        AvailableAtCommit)
                 /\ t.balance_before = AvailableAtCommit - 3
                 /\ t.balance_after = info.remaining_balance
                 /\ t.balance_after = AvailableAtCommit - t.leaves_used
                 /\ employees'[response'.emp_id].leave_balance =
                       info.remaining_balance]_vars

\* a second settlement: 3.0 days carried in, 3.5 taken out of 4.5 available
C17_Witness ==
    /\ Processed
    /\ Len(leave_transactions) = 2
    /\ LastTransaction.leaves_allocated = 3
    /\ LastTransaction.leaves_used = 7
    /\ LastTransaction.balance_before = 6
    /\ LastTransaction.balance_after = 2
    /\ employees[LastTransaction.emp_id].leave_balance = 2

\* the ledger rows of a key
LedgerRowsOf(key) ==
    {i \in 1..Len(leave_transactions) : SamePeriod(leave_transactions[i], key)}

\* the keys processed so far
ProcessedKeys ==
    {[emp_id |-> leave_transactions[i].emp_id,
      month  |-> leave_transactions[i].month,
      year   |-> leave_transactions[i].year] : i \in 1..Len(leave_transactions)}

\* C18: the ledger is append-only.  No step changes or removes a row; a
\* committed processing run of a key, first or repeated, adds one row for
\* that key after the rows already there; and a key processed k times has k
\* ledger rows and one Payroll row.
C18_LedgerAppendOnly ==
    /\ [][/\ Len(leave_transactions') >= Len(leave_transactions)
          /\ SubSeq(leave_transactions', 1, Len(leave_transactions)) =
                leave_transactions
          /\ Commits =>
                /\ Len(leave_transactions') = Len(leave_transactions) + 1
                /\ SamePeriod(leave_transactions'[Len(leave_transactions')],
                              response')
                /\ Cardinality({i \in 1..Len(payroll') :
                                   SamePeriod(payroll'[i], response')}) = 1
          /\ ~Commits => leave_transactions' = leave_transactions]_vars
    /\ [](\A key \in ProcessedKeys :
             /\ Cardinality(LedgerRowsOf(key)) >= 1
             /\ Cardinality(PayrollRowsOf(key)) = 1)

\* one key processed three times: three ledger rows, one Payroll row
C18_Witness ==
    /\ Processed
    /\ Len(leave_transactions) = 3
    /\ Cardinality(LedgerRowsOf(response)) = 3
    /\ Cardinality(PayrollRowsOf(response)) = 1
    /\ leave_transactions[1] # leave_transactions[3]

\* calculate_salary_components has returned
Returned == components.at = "returned"

\* C19: for every positive ctc_monthly in whole paise, the five fixed lines
\* of the breakdown add up to ctc_monthly, whichever way basic and the
\* allowances were rounded.
C19_FixedLinesSumToCtc ==
    (Returned /\ components.ctc_monthly > 0) =>
        components.result.basic + components.result.hra +
        components.result.conveyance_allowance +
        components.result.medical_allowance +
        components.result.special_allowance = components.ctc_monthly

\* 0.13 rupees: basic 0.065 went up to 0.07, hra 0.014 down to 0.01, the
\* allowances 0.0065 up to 0.01, and the special allowance 0.03 closes the sum
C19_Witness ==
    /\ Returned
    /\ components.ctc_monthly = 13
    /\ components.result.basic = 7
    /\ components.result.hra = 1
    /\ components.result.conveyance_allowance = 1
    /\ components.result.medical_allowance = 1
    /\ components.result.special_allowance = 3

\* C20: basic is 50% of ctc_monthly, hra 20% of basic, conveyance and
\* medical allowance 5% of ctc_monthly each, all to the nearest paisa, and
\* the special allowance is ctc_monthly less those four, for every
\* ctc_monthly.
C20_PercentageSplit ==
    Returned =>
        /\ IsPercentOf(components.result.basic, 50, components.ctc_monthly)
        /\ IsPercentOf(components.result.hra, 20, components.result.basic)
        /\ IsPercentOf(components.result.conveyance_allowance, 5,
                       components.ctc_monthly)
        /\ IsPercentOf(components.result.medical_allowance, 5,
                       components.ctc_monthly)
        /\ components.result.special_allowance =
              components.ctc_monthly - components.result.basic
              - components.result.hra
              - components.result.conveyance_allowance
              - components.result.medical_allowance

\* 55000 rupees: 27500, 5500, 2750, 2750 and 16500
C20_Witness ==
    /\ Returned
    /\ components.ctc_monthly = 5500000
    /\ components.result.basic = 2750000
    /\ components.result.hra = 550000
    /\ components.result.conveyance_allowance = 275000
    /\ components.result.medical_allowance = 275000
    /\ components.result.special_allowance = 1650000

\* C21: with PF opted, pf_employee is 12% of basic to the nearest paisa, or
\* 1800 when 12% of basic reaches 1800, and pf_employer equals pf_employee;
\* without PF both are 0; the PF is never more than 1800.
C21_PfCappedAt1800 ==
    Returned =>
        /\ components.result.pf_employer = components.result.pf_employee
        /\ components.result.pf_employee <= 180000
        /\ components.pf_opted =>
              IF 12 * components.result.basic >= 100 * 180000
              THEN components.result.pf_employee = 180000
              ELSE IsPercentOf(components.result.pf_employee, 12,
                               components.result.basic)
        /\ ~components.pf_opted => components.result.pf_employee = 0

\* 50000 rupees with PF: 12% of the basic 25000 is 3000, capped at 1800
C21_Witness ==
    /\ Returned
    /\ components.pf_opted
    /\ components.ctc_monthly = 5000000
    /\ components.result.basic = 2500000
    /\ components.result.pf_employee = 180000
    /\ components.result.pf_employer = 180000

\* paid is amount times (1 - loss_of_pay_days / 30) to the nearest paisa
\* (loss_of_pay_days in half-days, of 60 in the month)
IsScaledForLossOfPay(paid, amount, loss_of_pay_days) ==
    /\ 60 * paid - amount * (60 - loss_of_pay_days) <= 30
    /\ amount * (60 - loss_of_pay_days) - 60 * paid <= 30

\* C22: with loss of pay, the row written by process_individual_payroll holds
\* each of basic, hra, special allowance, conveyance and medical allowance
\* scaled by (1 - loss_of_pay_days / 30) and rounded to the paisa on its own;
\* without loss of pay it holds the five lines as calculate_salary_components
\* returned them.
C22_LossOfPayScalesEachLine ==
    Processed =>
        IF response.leave_info.loss_of_pay_days > 0
        THEN /\ IsScaledForLossOfPay(LastPayroll.basic_salary,
                                     response.salary_components.basic,
                                     response.leave_info.loss_of_pay_days)
             /\ IsScaledForLossOfPay(LastPayroll.hra,
                                     response.salary_components.hra,
                                     response.leave_info.loss_of_pay_days)
             /\ IsScaledForLossOfPay(LastPayroll.special_allowance,
                                     response.salary_components.special_allowance,
                                     response.leave_info.loss_of_pay_days)
             /\ IsScaledForLossOfPay(LastPayroll.conveyance_allowance,
                                     response.salary_components.conveyance_allowance,
                                     response.leave_info.loss_of_pay_days)
             /\ IsScaledForLossOfPay(LastPayroll.medical_allowance,
                                     response.salary_components.medical_allowance,
                                     response.leave_info.loss_of_pay_days)
        ELSE /\ LastPayroll.basic_salary = response.salary_components.basic
             /\ LastPayroll.hra = response.salary_components.hra
             /\ LastPayroll.special_allowance =
                   response.salary_components.special_allowance
             /\ LastPayroll.conveyance_allowance =
                   response.salary_components.conveyance_allowance
             /\ LastPayroll.medical_allowance =
                   response.salary_components.medical_allowance

\* half a day of loss of pay on 25000 rupees: the five lines, each rounded on
\* its own, add up to one paisa more than 59/60 of 25000
C22_Witness ==
    /\ Processed
    /\ response.leave_info.loss_of_pay_days = 1
    /\ response.ctc_monthly = 2500000
    /\ LastPayroll.basic_salary = 1229167
    /\ LastPayroll.basic_salary + LastPayroll.hra + LastPayroll.special_allowance
       + LastPayroll.conveyance_allowance + LastPayroll.medical_allowance
          # round(2500000 * 59, 60)

\* C23: the row written by process_individual_payroll holds overtime,
\* expenses and bonus as submitted, also when the fixed lines were scaled for
\* loss of pay, and leave_balance_amount is 100 rupees per day of the leave
\* balance remaining after this settlement.
C23_VariableEarningsVerbatim ==
    Processed =>
        /\ LastPayroll.overtime_amount = response.form.overtime_amount
        /\ LastPayroll.expenses = response.form.expenses
        /\ LastPayroll.bonus = response.form.bonus
        /\ LastPayroll.leave_balance_amount =
              response.leave_info.remaining_balance * 5000
        /\ LastPayroll.leave_balance_amount =
              employees[response.emp_id].leave_balance * 5000

\* overtime, expenses and a bonus submitted in a run with loss of pay that
\* uses up the balance, after a run that left 1.5 days, worth 150 rupees
C23_Witness ==
    /\ Processed
    /\ Len(leave_transactions) = 3
    /\ response.leave_info.loss_of_pay_days > 0
    /\ LastPayroll.overtime_amount = 100000
    /\ LastPayroll.expenses = 20000
    /\ LastPayroll.bonus = 30000
    /\ LastPayroll.leave_balance_amount = 0
    /\ \E i \in 1..Len(payroll) : /\ payroll[i].leaves_taken = 0
                                  /\ payroll[i].leave_balance_amount = 15000

\* C24: in the row written by process_individual_payroll, vpf, pt, charity
\* and misc_deduction are 0, total_deductions is pf_employee plus the
\* submitted additional deduction, and net_salary is gross_salary less PF
\* less the additional deduction.
C24_TotalDeductions ==
    Processed =>
        /\ LastPayroll.vpf = 0
        /\ LastPayroll.pt = 0
        /\ LastPayroll.charity = 0
        /\ LastPayroll.misc_deduction = 0
        /\ LastPayroll.additional_deduction = response.form.deduction_amount
        /\ LastPayroll.total_deductions =
              LastPayroll.pf_employee + response.form.deduction_amount
        /\ LastPayroll.net_salary + response.form.deduction_amount =
              LastPayroll.gross_salary - LastPayroll.pf_employee

\* an advance of 500 rupees on top of the capped PF of 1800
C24_Witness ==
    /\ Processed
    /\ response.form.deduction_amount = 50000
    /\ LastPayroll.pf_employee = 180000
    /\ LastPayroll.total_deductions = 230000
    /\ LastPayroll.net_salary = LastPayroll.gross_salary - 230000

\* bulk_process_payroll has committed a spreadsheet
BulkProcessed == response.flash = "Successfully processed"

\* C25: bulk_process_payroll counts every spreadsheet row that names an
\* existing employee as successfully processed and only the rows that name
\* an unknown employee as errors, and the Payroll rows it updates carry the
\* PF and the totals of the computed components.
C25_BulkCountsExistingEmployees ==
    BulkProcessed =>
        /\ response.success_count = response.existing_rows
        /\ \A i \in response.updated :
              /\ payroll[i].processed_at > 0
              /\ payroll[i].net_salary =
                    payroll[i].gross_salary - payroll[i].total_deductions

\* C26: a settlement of a non-negative leaves_taken splits it into the days
\* covered by the balance and the loss-of-pay days, and leaves a balance that
\* is not negative; so no stored leave_balance and no balance_after of the
\* ledger is negative.
C26_LeaveSplitAndBalanceNonNegative ==
    /\ (Processed /\ response.form.leaves_taken >= 0) =>
          /\ response.leave_info.leave_balance_used +
             response.leave_info.loss_of_pay_days = response.form.leaves_taken
          /\ response.leave_info.leave_balance_used >= 0
          /\ response.leave_info.loss_of_pay_days >= 0
          /\ response.leave_info.remaining_balance >= 0
    /\ \A e \in StoredEmpIds : Exists(e) => employees[e].leave_balance >= 0
    /\ \A i \in 1..Len(leave_transactions) :
          /\ leave_transactions[i].balance_after >= 0
          /\ leave_transactions[i].balance_before >= 0

\* 3.5 days taken with 3.0 available: 3.0 covered, 0.5 unpaid, nothing left
C26_Witness ==
    /\ Processed
    /\ response.form.leaves_taken = 7
    /\ response.leave_info.leave_balance_used = 6
    /\ response.leave_info.loss_of_pay_days = 1
    /\ LastTransaction.balance_after = 0
    /\ employees[response.emp_id].leave_balance = 0

\* the LeaveTransaction of an employee that was appended last
LatestTransactionOf(emp_id) ==
    leave_transactions[CHOOSE i \in TransactionsOf(emp_id) :
                          \A j \in TransactionsOf(emp_id) : j <= i]

\* C27: in every committed state, the stored leave_balance of an employee
\* with at least one LeaveTransaction is the balance_after of the
\* LeaveTransaction of that employee that was appended last.
C27_BalanceIsLatestBalanceAfter ==
    \A e \in StoredEmpIds :
        (Exists(e) /\ TransactionsOf(e) # {}) =>
            employees[e].leave_balance = LatestTransactionOf(e).balance_after

\* after three runs, a hike and a spreadsheet upload, the stored balance of
\* 1.0 day is the one the third run closed with, not the 3.0 of the first
C27_Witness ==
    /\ Cardinality(TransactionsOf("E1")) = 3
    /\ hikes > 0
    /\ BulkProcessed
    /\ leave_transactions[1].balance_after = 6
    /\ leave_transactions[3].balance_after = 2
    /\ employees["E1"].leave_balance = 2

\* the step answers a view of the employee dashboard
ViewsDashboard == response'.flash = "" /\ clock' = clock

\* the last request was a view of the employee dashboard
DashboardViewed ==
    /\ response.flash = ""
    /\ "page" \in DOMAIN response

\* C28: a view of employee_dashboard leaves the committed employees, ledger
\* and payroll rows as they were, however often it is repeated, so the
\* payroll run that follows starts from the state the last commit left.
C28_DashboardChangesNothing ==
    /\ [][ViewsDashboard =>
             /\ employees' = employees
             /\ leave_transactions' = leave_transactions
             /\ payroll' = payroll]_vars
    /\ [](\A e \in StoredEmpIds :
             (Exists(e) /\ TransactionsOf(e) = {}) =>
                 employees[e].leave_balance = default_leave_balance)

\* the dashboard of an employee viewed after two payroll runs: two ledger
\* rows and the balance the second run stored
C28_Witness ==
    /\ DashboardViewed
    /\ response.emp_id = "E1"
    /\ Len(leave_transactions) = 2
    /\ Len(payroll) = 2
    /\ employees["E1"].leave_balance = leave_transactions[2].balance_after

\* the users an endpoint is open to
AllowedUsers(endpoint) ==
    CASE endpoint = "apply_hike" -> {"admin"}
      [] endpoint \in {"add_employee", "bulk_add_employees"} -> {"admin", "hr"}
      [] endpoint \in {"process_individual_payroll", "bulk_process_payroll"} ->
            {"admin", "hr", "accounts"}

\* C29: a request to apply_hike, add_employee, bulk_add_employees,
\* process_individual_payroll or bulk_process_payroll by a visitor who is not
\* logged in, or by a user whose role the endpoint does not allow, is
\* answered with a redirect and leaves the employees, the payroll rows and
\* the ledger as they were.
C29_RoleRequired ==
    [][(/\ requests'[1].at = "served"
        /\ requests'[1].user \notin AllowedUsers(requests'[1].endpoint))
       => /\ "redirect" \in DOMAIN response'
          /\ response'.redirect =
                IF requests'[1].user \in {"admin", "hr", "accounts"}
                THEN "dashboard" ELSE "login"
          /\ employees' = employees
          /\ payroll' = payroll
          /\ leave_transactions' = leave_transactions]_vars

\* the accounts user sent back to the dashboard from apply_hike, with an
\* employee and a payroll row in place and no hike applied
C29_Witness ==
    /\ requests[1].at = "served"
    /\ requests[1].endpoint = "apply_hike"
    /\ requests[1].user = "accounts"
    /\ "redirect" \in DOMAIN response
    /\ Exists("E1")
    /\ employees["E1"].ctc_annual = 12 * employees["E1"].ctc_monthly
    /\ Len(payroll) = 1
    /\ payroll[1].processed_by = "accounts"
    /\ hikes = 0

\* C30: no two rows of the employees table share an emp_id or an e-mail
\* address, after any sequence of add_employee and bulk_add_employees
\* requests, also when a spreadsheet repeats an emp_id or an address within
\* itself; no request changes or removes a row that is there, and a
\* submission that would duplicate one adds nothing.
C30_NoDuplicateEmployees ==
    /\ [](\A i, j \in 1..Len(employee_rows) :
             i # j => /\ employee_rows[i].emp_id # employee_rows[j].emp_id
                      /\ employee_rows[i].email # employee_rows[j].email)
    /\ [][/\ Len(employee_rows') >= Len(employee_rows)
          /\ SubSeq(employee_rows', 1, Len(employee_rows)) = employee_rows
          /\ response'.flash \in {"Employee ID already exists",
                                  "Email already exists"}
                => employee_rows' = employee_rows]_vars

\* a spreadsheet of two rows with the same emp_id, uploaded to an empty
\* table: the first row is added, the second is reported as a duplicate
C30_Witness ==
    /\ response.flash = "Successfully added some"
    /\ response.success_count = 1
    /\ response.error_details = <<"Employee ID already exists">>
    /\ Len(employee_rows) = 1

====
